---- MODULE Spec2Model ----
(***************************************************************************)
(* Uncollapsed Gibbs sampling for LDA: class Gibbs of                      *)
(* 4_Gibbs_Sampling_Tutorial.ipynb (__init__, iterate, perplexity,         *)
(* top_n_words).                                                           *)
(*                                                                         *)
(* Documents and word positions are 0-based as in the code: the corpus is  *)
(* a sequence of documents, document d is text[d+1], its word i is         *)
(* text[d+1][i+1].  The count matrices are label-indexed tables            *)
(* (pandas .loc / .ix by document index, token and topic).                 *)
(*                                                                         *)
(* Floating point is modelled by exact rationals: alpha and beta are       *)
(* records [num, den]; the conditional weights are kept as integers up to  *)
(* the positive factor that weights/weights.sum() cancels.                 *)
(***************************************************************************)
EXTENDS Integers, Sequences, FiniteSets

VARIABLES
    text,               \* self.text: the corpus
    K,                  \* self.K
    status,             \* "new" before __init__, "ready" after it, "failed" if it raised
    tokens,             \* self.tokens (as a set of labels)
    V,                  \* self.V
    doc_topic,          \* self.doc_topic: d -> (i -> topic), the assignment z
    doc_topic_counts,   \* self.doc_topic_counts: d -> (topic -> count)
    term_topic_count,   \* self.term_topic_count: token -> (topic -> count)
    alpha,              \* self.alpha as a rational [num, den]
    beta,               \* self.beta as a rational [num, den]
    perplexity_scores,  \* self.perplexity_scores
    pc,                 \* position of the caller / of iterate
    n,                  \* iterate's argument n
    step,               \* iterate's loop variable step
    doc_ind,            \* iterate's loop variable doc_ind
    word_ind,           \* iterate's loop variable word_ind
    out,                \* what the last call printed (top_n_words), <<>> otherwise
    visited,            \* history: occurrences resampled so far in the current sweep
    eval_steps,         \* history: the steps of the current iterate call that evaluated perplexity
    len0,               \* history: length of perplexity_scores when iterate was called
    evals,              \* history: how many times perplexity() has been invoked
    det,                \* the two seeded runs that SpecDet compares (run 0: not in use)
    before              \* history: << >>, or the one-element sequence of the assignments,
                        \* matrices and trace as they were when the last resample of the
                        \* current document began

vars == <<text, K, status, tokens, V, doc_topic, doc_topic_counts, term_topic_count,
          alpha, beta, perplexity_scores, pc, n, step, doc_ind, word_ind,
          out, visited, eval_steps, len0, evals, det, before>>

sampler == <<text, K, status, tokens, V, doc_topic, doc_topic_counts, term_topic_count,
             alpha, beta>>

----------------------------------------------------------------------------
(* Bounds of the model and constants of the program *)

MaxTrace == 2       \* a call is made only while the trace is shorter than this
MaxSweeps == 2      \* largest n passed to iterate in Spec
MaxLongSweeps == 50 \* largest n passed to iterate in SpecCadence
NVariates == 4      \* resolution of the uniform variates

DefaultK == 2       \* def __init__(self, text, K=2)
AlphaNum == 50      \* self.alpha = 50.0/self.K
BetaNum == 200      \* self.beta = 200.0/self.V
ReportEvery == 25   \* if step%25==0

CorpusB == << <<"a", "a">>, << >>, <<"b">> >>
CorpusC == << <<"a", "a">> >>
CorpusD == << <<"a">>, <<"a", "b">> >>
CorpusE == << << >> >>
CorpusNone == << >>
CorpusOne == << <<"a">> >>

Configs == { <<CorpusB, DefaultK>>, <<CorpusD, DefaultK>>, <<CorpusD, 1>>, <<CorpusC, 3>>,
             <<CorpusC, 0>>, <<CorpusE, DefaultK>>, <<CorpusNone, DefaultK>>,
             <<CorpusE, 0>>, <<CorpusNone, 0>>, <<CorpusB, -1>>, <<CorpusNone, -1>> }

LongConfigs == { <<CorpusOne, DefaultK>>, <<CorpusD, 1>> }

----------------------------------------------------------------------------
(* Helpers *)

RECURSIVE SumOver(_, _)
SumOver(f, S) ==
    IF S = {} THEN 0
    ELSE LET x == CHOOSE y \in S : TRUE IN f[x] + SumOver(f, S \ {x})

RECURSIVE ProdOver(_, _)
ProdOver(f, S) ==
    IF S = {} THEN 1
    ELSE LET x == CHOOSE y \in S : TRUE IN f[x] * ProdOver(f, S \ {x})

Docs(t) == 0 .. (Len(t) - 1)                 \* range(self.text.shape[0])
Positions(t, d) == 0 .. (Len(t[d + 1]) - 1)  \* enumerate(doc)
Word(t, d, i) == t[d + 1][i + 1]
Topics(k) == 0 .. (k - 1)                    \* range(self.K)

\* list(set(chain(*text.values)))
TokensOf(t) == UNION { { t[d][i] : i \in DOMAIN t[d] } : d \in DOMAIN t }

\* The (document, position) pairs of the corpus, in document order and then
\* in position order.
RECURSIVE OccurrencesFrom(_, _, _)
OccurrencesFrom(t, d, i) ==
    IF d >= Len(t) THEN << >>
    ELSE IF i >= Len(t[d + 1]) THEN OccurrencesFrom(t, d + 1, 0)
    ELSE << <<d, i>> >> \o OccurrencesFrom(t, d, i + 1)

Occurrences(t) == OccurrencesFrom(t, 0, 0)

OccurrenceSet(t) == UNION { { <<d, i>> : i \in Positions(t, d) } : d \in Docs(t) }

TotalWords(t) == SumOver([d \in Docs(t) |-> Len(t[d + 1])], Docs(t))

\* The uniform variates the generator can return: (2r+1) / (2*NVariates).
Variates == { [num |-> 2 * r + 1, den |-> 2 * NVariates] : r \in 0 .. (NVariates - 1) }

\* x * rem <= D * y, evaluated without forming x * rem (0 <= x <= D, rem >= 0)
LeqScaled(x, D, rem, y) ==
    x * (rem \div D) + ((x * (rem % D) + D - 1) \div D) <= y

----------------------------------------------------------------------------
(* Gibbs.__init__ *)

\* Mutant: the upper end is included, as random.randint does
RandInt_Closed(low, high, u) == low + (u.num * (high - low + 1)) \div u.den

\* np.random.randint(low, high): the value a variate u yields, low <= value < high
RandInt(low, high, u) == low + (u.num * (high - low)) \div u.den

\* Mutant: an empty range of topics is let through
RandIntRaises_Strict(low, high) == low > high

\* np.random.randint raises ValueError("low >= high")
RandIntRaises(low, high) == low >= high

\* Counter(x)[k]: how many entries of the array x are k
RECURSIVE CounterFrom(_, _, _)
CounterFrom(x, k, i) ==
    IF i \notin DOMAIN x THEN 0
    ELSE (IF x[i] = k THEN 1 ELSE 0) + CounterFrom(x, k, i + 1)

\* Mutant: set(x) in place of Counter(x), a topic counts once per document
Counter_Presence(x, k) == IF \E i \in DOMAIN x : x[i] = k THEN 1 ELSE 0

Counter(x, k) == CounterFrom(x, k, 0)

\* The columns of doc_topic_counts: the topics that were drawn, then the
\* missing ones of range(K) filled in.
CountColumns(t, k, z) ==
    { z[o[1]][o[2]] : o \in OccurrenceSet(t) } \cup Topics(k)

\* doc_topic.apply(Counter).apply(pd.Series).fillna(0), missing columns set to 0
InitDocTopicCounts(t, k, z) ==
    [d \in Docs(t) |-> [j \in CountColumns(t, k, z) |-> Counter(z[d], j)]]

\* for doc_ind ...: for (topic, word) in zip(...): term_topic_count.loc[word,topic] += 1
RECURSIVE TallyTerms(_, _, _, _)
TallyTerms(t, z, occ, tt) ==
    IF occ = << >> THEN tt
    ELSE LET d == Head(occ)[1]
             i == Head(occ)[2]
             w == Word(t, d, i)
             k == z[d][i]
         IN TallyTerms(t, z, Tail(occ),
                       [tt EXCEPT ![w] = [@ EXCEPT ![k] = @ + 1]])

\* Mutant: the tally counts each distinct word of a document once
InitTermTopicCount_Distinct(t, k, z) ==
    TallyTerms(t, z,
               SelectSeq(Occurrences(t),
                         LAMBDA o : \A j \in 0 .. (o[2] - 1) :
                                        Word(t, o[1], j) # Word(t, o[1], o[2])),
               [w \in TokensOf(t) |-> [j \in Topics(k) |-> 0]])

InitTermTopicCount(t, k, z) ==
    TallyTerms(t, z, Occurrences(t), [w \in TokensOf(t) |-> [j \in Topics(k) |-> 0]])

\* Mutant: self.beta is set without dividing by self.V
InitRaises_IgnoresVocabulary(t, k) == Len(t) > 0 /\ RandIntRaises(0, k)

\* __init__ raises: randint on the first document when K <= 0, and
\* 200.0/self.V when the corpus has no token.
InitRaises(t, k) ==
    \/ Len(t) > 0 /\ RandIntRaises(0, k)
    \/ Cardinality(TokensOf(t)) = 0

\* The initial assignments the generator can produce: one variate per occurrence.
InitialDraws(t, k) ==
    { [d \in Docs(t) |-> [i \in Positions(t, d) |-> RandInt(0, k, raw[<<d, i>>])]] :
        raw \in [OccurrenceSet(t) -> Variates] }

Construct ==
    /\ status = "new"
    /\ ~InitRaises(text, K)
    /\ \E z \in InitialDraws(text, K) :
          /\ doc_topic' = z
          /\ doc_topic_counts' = InitDocTopicCounts(text, K, z)
          /\ term_topic_count' = InitTermTopicCount(text, K, z)
    /\ tokens' = TokensOf(text)
    /\ V' = Cardinality(TokensOf(text))
    /\ alpha' = [num |-> AlphaNum, den |-> K]
    /\ beta' = [num |-> BetaNum, den |-> Cardinality(TokensOf(text))]
    /\ perplexity_scores' = << >>
    /\ status' = "ready"
    /\ UNCHANGED <<text, K, pc, n, step, doc_ind, word_ind, out, visited, eval_steps, len0,
                   evals>>
    /\ UNCHANGED <<det, before>>

ConstructFails ==
    /\ status = "new"
    /\ InitRaises(text, K)
    /\ status' = "failed"
    /\ UNCHANGED <<text, K, tokens, V, doc_topic, doc_topic_counts, term_topic_count,
                   alpha, beta, perplexity_scores, pc, n, step, doc_ind, word_ind,
                   out, visited, eval_steps, len0, evals>>
    /\ UNCHANGED <<det, before>>

----------------------------------------------------------------------------
(* Gibbs.perplexity *)

\* doc_topic_counts.sum()[j] and term_topic_count.sum()[j]: the column sums
ColSum(m, j) == SumOver([r \in DOMAIN m |-> m[r][j]], DOMAIN m)

\* doc_topic_counts.sum(1).ix[d]: the row sum
RowSum(m, r) == SumOver(m[r], DOMAIN m[r])

\* The score perplexity() appends.  exp(-sum(log(.))/N) is kept symbolically:
\* for every occurrence in corpus order, for every topic k, the exact value of
\* tt.ix[word][k] * dt.ix[d][k] as a fraction
\*   (beta.den*ttc[w,k] + beta.num) * (alpha.den*dtc[d,k] + alpha.num)
\*   ------------------------------------------------------------------
\*   sum_w'(beta.den*ttc[w',k] + beta.num) * sum_k'(alpha.den*dtc[d,k'] + alpha.num)
PerplexityScore(t, kk, dtc, ttc, a, b) ==
    LET occ == Occurrences(t)
        term(d, w, k) ==
            [num |-> (b.den * ttc[w][k] + b.num) * (a.den * dtc[d][k] + a.num),
             den |-> (b.den * ColSum(ttc, k) + Cardinality(DOMAIN ttc) * b.num)
                     * (a.den * RowSum(dtc, d) + Cardinality(DOMAIN dtc[d]) * a.num)]
    IN [x \in DOMAIN occ |->
           [k \in Topics(kk) |-> term(occ[x][1], Word(t, occ[x][1], occ[x][2]), k)]]

\* Mutant: the trace is replaced by the new score
AppendScore_Overwrite(scores, t, kk, dtc, ttc, a, b) ==
    << PerplexityScore(t, kk, dtc, ttc, a, b) >>

\* self.perplexity_scores.append(...)
AppendScore(scores, t, kk, dtc, ttc, a, b) ==
    Append(scores, PerplexityScore(t, kk, dtc, ttc, a, b))

\* Mutant: the smoothing is added to doc_topic_counts in place
Perplexity_InPlace ==
    /\ perplexity_scores' = AppendScore(perplexity_scores, text, K, doc_topic_counts,
                                        term_topic_count, alpha, beta)
    /\ evals' = evals + 1
    /\ doc_topic_counts' = [d \in DOMAIN doc_topic_counts |->
                               [k \in DOMAIN doc_topic_counts[d] |->
                                   doc_topic_counts[d][k] + alpha.num]]
    /\ UNCHANGED <<text, K, status, tokens, V, doc_topic, term_topic_count, alpha, beta>>

\* One invocation of perplexity(): dt and tt are new tables, the score is appended
Perplexity ==
    /\ perplexity_scores' = AppendScore(perplexity_scores, text, K, doc_topic_counts,
                                        term_topic_count, alpha, beta)
    /\ evals' = evals + 1
    /\ UNCHANGED sampler

\* A direct call gibbsobj.perplexity()
CallPerplexity ==
    /\ status = "ready" /\ pc = "idle"
    /\ Len(perplexity_scores) < MaxTrace
    /\ Perplexity
    /\ out' = << >>
    /\ UNCHANGED <<pc, n, step, doc_ind, word_ind, visited, eval_steps, len0>>
    /\ UNCHANGED <<det, before>>

----------------------------------------------------------------------------
(* Gibbs.iterate *)

\* The values of n the caller passes; iterate takes any integer, and range(n)
\* is empty for n <= 0
SweepChoices == { -1, 0, 1, MaxSweeps }

LongSweepChoices ==
    { 0, 1, ReportEvery - 1, ReportEvery, ReportEvery + 1, MaxLongSweeps }

\* gibbsobj.iterate(n=m)
CallIterateWith(choices) ==
    /\ status = "ready" /\ pc = "idle"
    /\ Len(perplexity_scores) < MaxTrace
    /\ \E m \in choices : n' = m
    /\ step' = 0
    /\ pc' = "for_step"
    /\ out' = << >>
    /\ visited' = << >>
    /\ eval_steps' = << >>
    /\ len0' = Len(perplexity_scores)
    /\ UNCHANGED <<sampler, perplexity_scores, doc_ind, word_ind, evals>>
    /\ UNCHANGED <<det, before>>

CallIterate == CallIterateWith(SweepChoices)

CallIterateLong == CallIterateWith(LongSweepChoices)

\* Mutant: every 25th sweep counted from 1, so not in sweep 0
StepBegin_OneBased ==
    /\ pc = "for_step" /\ step < n
    /\ IF (step + 1) % ReportEvery = 0
       THEN /\ Perplexity
            /\ eval_steps' = Append(eval_steps, step)
       ELSE UNCHANGED <<sampler, perplexity_scores, evals, eval_steps>>
    /\ doc_ind' = 0
    /\ pc' = "for_doc"
    /\ visited' = << >>
    /\ UNCHANGED <<n, step, word_ind, out, len0>>
    /\ UNCHANGED <<det, before>>

\* for step in range(n): if step%25==0: self.perplexity()
StepBegin ==
    /\ pc = "for_step" /\ step < n
    /\ IF step % ReportEvery = 0
       THEN /\ Perplexity
            /\ eval_steps' = Append(eval_steps, step)
       ELSE UNCHANGED <<sampler, perplexity_scores, evals, eval_steps>>
    /\ doc_ind' = 0
    /\ pc' = "for_doc"
    /\ visited' = << >>
    /\ UNCHANGED <<n, step, word_ind, out, len0>>
    /\ UNCHANGED <<det, before>>

\* range(n) is exhausted: iterate returns (its locals are gone)
Return ==
    /\ pc = "for_step" /\ step >= n
    /\ pc' = "idle"
    /\ n' = 0 /\ step' = 0 /\ doc_ind' = 0 /\ word_ind' = 0
    /\ visited' = << >> /\ eval_steps' = << >> /\ len0' = 0
    /\ UNCHANGED <<sampler, perplexity_scores, out, evals>>
    /\ UNCHANGED <<det, before>>

\* Mutant: the words are enumerated from the second one
DocBegin_SkipsFirst ==
    /\ pc = "for_doc" /\ doc_ind < Len(text)
    /\ word_ind' = 1
    /\ pc' = "for_word"
    /\ UNCHANGED <<sampler, perplexity_scores, n, step, doc_ind, out, visited,
                   eval_steps, len0, evals>>
    /\ UNCHANGED <<det, before>>

\* for doc_ind,doc in enumerate(self.text): topics = self.doc_topic.ix[doc_ind]
DocBegin ==
    /\ pc = "for_doc" /\ doc_ind < Len(text)
    /\ word_ind' = 0
    /\ pc' = "for_word"
    /\ UNCHANGED <<sampler, perplexity_scores, n, step, doc_ind, out, visited,
                   eval_steps, len0, evals>>
    /\ UNCHANGED <<det, before>>

\* the documents are exhausted: next step
StepEnd ==
    /\ pc = "for_doc" /\ doc_ind >= Len(text)
    /\ step' = step + 1
    /\ pc' = "for_step"
    /\ UNCHANGED <<sampler, perplexity_scores, n, doc_ind, word_ind, out, visited,
                   eval_steps, len0, evals>>
    /\ UNCHANGED <<det, before>>

\* m.loc[r, c] -= 1
Decrement(m, r, c) == [m EXCEPT ![r] = [@ EXCEPT ![c] = @ - 1]]

\* Mutant: m[c] += 1, the whole column is incremented
Increment_WholeColumn(m, r, c) == [x \in DOMAIN m |-> [m[x] EXCEPT ![c] = @ + 1]]

\* m.loc[r, c] += 1
Increment(m, r, c) == [m EXCEPT ![r] = [@ EXCEPT ![c] = @ + 1]]

\* The assignments, the matrices and the trace as a resample finds them
Snapshot ==
    [z |-> doc_topic, dtc |-> doc_topic_counts, ttc |-> term_topic_count,
     scores |-> perplexity_scores]

\* Mutant: the word is not removed from doc_topic_counts
Remove_KeepsDocCount ==
    /\ pc = "for_word" /\ word_ind < Len(text[doc_ind + 1])
    /\ term_topic_count' = Decrement(term_topic_count, Word(text, doc_ind, word_ind),
                                     doc_topic[doc_ind][word_ind])
    /\ pc' = "removed"
    /\ UNCHANGED <<text, K, status, tokens, V, doc_topic, doc_topic_counts, alpha, beta,
                   perplexity_scores, n, step, doc_ind, word_ind, out, visited,
                   eval_steps, len0, evals>>
    /\ before' = << Snapshot >>
    /\ UNCHANGED det

\* Mutant: the word is not removed from term_topic_count
Remove_KeepsTermCount ==
    /\ pc = "for_word" /\ word_ind < Len(text[doc_ind + 1])
    /\ doc_topic_counts' = Decrement(doc_topic_counts, doc_ind, doc_topic[doc_ind][word_ind])
    /\ pc' = "removed"
    /\ UNCHANGED <<text, K, status, tokens, V, doc_topic, term_topic_count, alpha, beta,
                   perplexity_scores, n, step, doc_ind, word_ind, out, visited,
                   eval_steps, len0, evals>>
    /\ before' = << Snapshot >>
    /\ UNCHANGED det

\* Mutant: the topic removed is the one of the document's first word
Remove_FirstWord ==
    /\ pc = "for_word" /\ word_ind < Len(text[doc_ind + 1])
    /\ doc_topic_counts' = Decrement(doc_topic_counts, doc_ind, doc_topic[doc_ind][0])
    /\ term_topic_count' = Decrement(term_topic_count, Word(text, doc_ind, word_ind),
                                     doc_topic[doc_ind][0])
    /\ pc' = "removed"
    /\ UNCHANGED <<text, K, status, tokens, V, doc_topic, alpha, beta, perplexity_scores,
                   n, step, doc_ind, word_ind, out, visited, eval_steps, len0, evals>>
    /\ before' = << Snapshot >>
    /\ UNCHANGED det

\* Remove current word from current calculations
Remove ==
    /\ pc = "for_word" /\ word_ind < Len(text[doc_ind + 1])
    /\ doc_topic_counts' = Decrement(doc_topic_counts, doc_ind, doc_topic[doc_ind][word_ind])
    /\ term_topic_count' = Decrement(term_topic_count, Word(text, doc_ind, word_ind),
                                     doc_topic[doc_ind][word_ind])
    /\ pc' = "removed"
    /\ UNCHANGED <<text, K, status, tokens, V, doc_topic, alpha, beta, perplexity_scores,
                   n, step, doc_ind, word_ind, out, visited, eval_steps, len0, evals>>
    /\ before' = << Snapshot >>
    /\ UNCHANGED det

\* the words of the document are exhausted: self.doc_topic.ix[doc_ind] = topics
\* (topics is the array doc_topic holds, already updated in place)
DocEnd ==
    /\ pc = "for_word" /\ word_ind >= Len(text[doc_ind + 1])
    /\ doc_ind' = doc_ind + 1
    /\ pc' = "for_doc"
    /\ UNCHANGED <<sampler, perplexity_scores, n, step, word_ind, out, visited,
                   eval_steps, len0, evals>>
    /\ before' = << >>
    /\ UNCHANGED det

\* V*beta and K*alpha (beta.den divides V*beta.num, alpha.den divides K*alpha.num)
VBeta(v, b) == (v * b.num) \div b.den
KAlpha(kk, a) == (kk * a.num) \div a.den

\* beta.den * (term_topic_count.ix[word][j] + beta)
WordNum(ttc, w, j, b) == b.den * ttc[w][j] + b.num

\* doc_topic_counts.sum()[j] + V*beta
CorpusDen(dtc, j, v, b) == ColSum(dtc, j) + VBeta(v, b)

\* Mutant: the smoothing alpha is left out of the numerator
TopicNum_NoPrior(dtc, d, j, a) == a.den * dtc[d][j]

\* alpha.den * (doc_topic_counts.ix[doc_ind][j] + alpha)
TopicNum(dtc, d, j, a) == a.den * dtc[d][j] + a.num

\* doc_topic_counts.sum(1).ix[doc_ind] + K*alpha
DocDen(dtc, d, kk, a) == RowSum(dtc, d) + KAlpha(kk, a)

\* weights = word_given_topic*topic_given_doc, as integers: weight j times
\* beta.den * alpha.den * DocDen * (product of all CorpusDen), the factor
\* common to all topics that weights/weights.sum() cancels.
Weights(dtc, ttc, d, w, kk, v, a, b) ==
    [j \in Topics(kk) |->
        WordNum(ttc, w, j, b) * TopicNum(dtc, d, j, a)
        * ProdOver([i \in Topics(kk) |-> CorpusDen(dtc, i, v, b)], Topics(kk) \ {j})]

\* rk_binomial(1, p) with p = w/rem and the variate u: 1 trial succeeds
\* (inversion: p <= 0.5 succeeds iff u > 1-p, p > 0.5 succeeds iff u <= p)
Binomial1(w, rem, u) ==
    IF 2 * w <= rem
    THEN ~LeqScaled(u.num, u.den, rem, rem - w)
    ELSE LeqScaled(u.num, u.den, rem, w)

\* np.where(np.random.multinomial(1,weights)==1)[0][0]: the categories are
\* tried in order, each with one variate, the last one takes what is left.
RECURSIVE MultinomialFrom(_, _, _, _, _)
MultinomialFrom(wts, us, j, rem, kk) ==
    IF j >= kk - 1 THEN j
    ELSE IF Binomial1(wts[j], rem, us[j]) THEN j
    ELSE MultinomialFrom(wts, us, j + 1, rem - wts[j], kk)

Multinomial1(wts, us, kk) == MultinomialFrom(wts, us, 0, SumOver(wts, DOMAIN wts), kk)

\* The topics np.random.multinomial can return for the occurrence (d, i),
\* one for each run of variates
Drawable(t, dtc, ttc, d, i, kk, v, a, b) ==
    LET wts == Weights(dtc, ttc, d, Word(t, d, i), kk, v, a, b)
    IN { Multinomial1(wts, us, kk) : us \in [0 .. (kk - 2) -> Variates] }

\* Mutant: the word is added back to the topic it was removed from
DrawAdd_AddsBackOld ==
    /\ pc = "removed"
    /\ \E new_topic \in Drawable(text, doc_topic_counts, term_topic_count, doc_ind, word_ind,
                                 K, V, alpha, beta) :
          /\ doc_topic' = [doc_topic EXCEPT ![doc_ind] = [@ EXCEPT ![word_ind] = new_topic]]
          /\ doc_topic_counts' = Increment(doc_topic_counts, doc_ind,
                                           doc_topic[doc_ind][word_ind])
          /\ term_topic_count' = Increment(term_topic_count, Word(text, doc_ind, word_ind),
                                           doc_topic[doc_ind][word_ind])
    /\ word_ind' = word_ind + 1
    /\ pc' = "for_word"
    /\ visited' = Append(visited, <<doc_ind, word_ind>>)
    /\ UNCHANGED <<text, K, status, tokens, V, alpha, beta, perplexity_scores, n, step,
                   doc_ind, out, eval_steps, len0, evals>>
    /\ UNCHANGED <<det, before>>

\* Find conditional probability, draw the new topic, add back the removed word
DrawAdd ==
    /\ pc = "removed"
    /\ \E new_topic \in Drawable(text, doc_topic_counts, term_topic_count, doc_ind, word_ind,
                                 K, V, alpha, beta) :
          /\ doc_topic' = [doc_topic EXCEPT ![doc_ind] = [@ EXCEPT ![word_ind] = new_topic]]
          /\ doc_topic_counts' = Increment(doc_topic_counts, doc_ind, new_topic)
          /\ term_topic_count' = Increment(term_topic_count, Word(text, doc_ind, word_ind),
                                           new_topic)
    /\ word_ind' = word_ind + 1
    /\ pc' = "for_word"
    /\ visited' = Append(visited, <<doc_ind, word_ind>>)
    /\ UNCHANGED <<text, K, status, tokens, V, alpha, beta, perplexity_scores, n, step,
                   doc_ind, out, eval_steps, len0, evals>>
    /\ UNCHANGED <<det, before>>

----------------------------------------------------------------------------
(* Gibbs.top_n_words *)

Orderings(S) ==
    { s \in [1 .. Cardinality(S) -> S] : \A i, j \in DOMAIN s : i # j => s[i] # s[j] }

\* Mutant: the rows are sorted with ascending=True
SortedDescending_Ascending(ttc, k) ==
    { s \in Orderings(DOMAIN ttc) :
        \A i, j \in DOMAIN s : i < j => ttc[s[i]][k] <= ttc[s[j]][k] }

\* self.term_topic_count.sort(topic,ascending=False): the rows in non-increasing
\* order of the topic's count; the order of equal counts is whatever the sort yields
SortedDescending(ttc, k) ==
    { s \in Orderings(DOMAIN ttc) :
        \A i, j \in DOMAIN s : i < j => ttc[s[i]][k] >= ttc[s[j]][k] }

\* .head(m), m >= 0
Head_n(s, m) == SubSeq(s, 1, IF m < Len(s) THEN m ELSE Len(s))

\* What top_n_words(m) can print: for every topic, "Top m terms for topic k"
\* and the index of top_n
TopNOutputs(ttc, kk, m) ==
    { [k \in Topics(kk) |-> [n |-> m, words |-> Head_n(ord[k], m)]] :
        ord \in { f \in [Topics(kk) -> Orderings(DOMAIN ttc)] :
                    \A k \in Topics(kk) : f[k] \in SortedDescending(ttc, k) } }

\* gibbsobj.top_n_words(m)
TopNWords ==
    /\ status = "ready" /\ pc = "idle"
    /\ \E m \in 0 .. (V + 1) : out' \in TopNOutputs(term_topic_count, K, m)
    /\ UNCHANGED <<sampler, perplexity_scores, pc, n, step, doc_ind, word_ind, visited,
                   eval_steps, len0, evals>>
    /\ UNCHANGED <<det, before>>

----------------------------------------------------------------------------
(* Specifications *)

\* No seeded run is being compared
DetOff == [run |-> 0]

InitWith(configs) ==
    /\ \E c \in configs : text = c[1] /\ K = c[2]
    /\ status = "new"
    /\ tokens = {}
    /\ V = 0
    /\ doc_topic = << >>
    /\ doc_topic_counts = << >>
    /\ term_topic_count = << >>
    /\ alpha = [num |-> 0, den |-> 1]
    /\ beta = [num |-> 0, den |-> 1]
    /\ perplexity_scores = << >>
    /\ pc = "idle"
    /\ n = 0
    /\ step = 0
    /\ doc_ind = 0
    /\ word_ind = 0
    /\ out = << >>
    /\ visited = << >>
    /\ eval_steps = << >>
    /\ len0 = 0
    /\ evals = 0
    /\ det = DetOff
    /\ before = << >>

Init == InitWith(Configs)

InitLong == InitWith(LongConfigs)

Next ==
    \/ Construct
    \/ ConstructFails
    \/ CallPerplexity
    \/ CallIterate
    \/ StepBegin
    \/ Return
    \/ DocBegin
    \/ StepEnd
    \/ Remove
    \/ DrawAdd
    \/ DocEnd
    \/ TopNWords

Spec == Init /\ [][Next]_vars

\* Long runs of iterate on the smallest corpora
NextLong ==
    \/ Construct
    \/ CallPerplexity
    \/ CallIterateLong
    \/ StepBegin
    \/ Return
    \/ DocBegin
    \/ StepEnd
    \/ Remove
    \/ DrawAdd
    \/ DocEnd

SpecCadence == InitLong /\ [][NextLong]_vars

----------------------------------------------------------------------------
(* Two runs from the same seed *)

(* The program  np.random.seed(s); g = Gibbs(text, K); g.iterate(n)  is run   *)
(* twice.  det.stream holds the variates the seeded generator has returned  *)
(* so far: a position that was already reached (by the first run) returns   *)
(* the same variate again, a new position returns any variate.  det.cur is  *)
(* the run in progress, det.first the finished first run.                   *)

\* The programs compared: corpus, K, n
DetConfigs == { <<CorpusC, DefaultK, 0>>, <<CorpusC, DefaultK, 2>>, <<CorpusOne, 3, 2>>,
                <<CorpusOne, 1, 1>> }

\* A run that has not constructed its sampler yet; pos is the generator's position
FreshRun ==
    [stage |-> "new", z |-> << >>, dtc |-> << >>, ttc |-> << >>, scores |-> << >>,
     pos |-> 0, step |-> 0, at |-> 0, begun |-> FALSE, draws |-> << >>, mats |-> << >>]

\* Mutant: the generator is not governed by the seed
Supply_Unseeded(stream, pos, cnt) == [1 .. cnt -> Variates]

\* The variates the seeded generator can return to its next cnt calls from position pos
Supply(stream, pos, cnt) ==
    { us \in [1 .. cnt -> Variates] :
        \A i \in 1 .. cnt : pos + i <= Len(stream) => us[i] = stream[pos + i] }

\* The stream after the first c variates of us were returned from position pos
Consume(stream, pos, us, c) ==
    [i \in 1 .. (IF pos + c > Len(stream) THEN pos + c ELSE Len(stream)) |->
        IF i <= Len(stream) THEN stream[i] ELSE us[i - pos]]

\* How many variates np.random.multinomial(1, weights) uses to return topic k
VariatesUsed(k, kk) == IF k + 1 < kk - 1 THEN k + 1 ELSE IF kk > 1 THEN kk - 1 ELSE 0

DetAlpha == [num |-> AlphaNum, den |-> det.K]
DetBeta == [num |-> BetaNum, den |-> Cardinality(TokensOf(det.text))]

\* g = Gibbs(text, K): one variate per occurrence, in corpus order
DetConstruct ==
    /\ det.run \in {1, 2} /\ det.cur.stage = "new"
    /\ LET t == det.text
           occ == Occurrences(t)
       IN \E us \in Supply(det.stream, det.cur.pos, Len(occ)) :
             LET z == [d \in Docs(t) |-> [i \in Positions(t, d) |->
                         RandInt(0, det.K, us[CHOOSE x \in DOMAIN occ : occ[x] = <<d, i>>])]]
             IN det' = [det EXCEPT
                   !.stream = Consume(det.stream, det.cur.pos, us, Len(occ)),
                   !.cur = [FreshRun EXCEPT
                              !.stage = "sweeping",
                              !.z = z,
                              !.dtc = InitDocTopicCounts(t, det.K, z),
                              !.ttc = InitTermTopicCount(t, det.K, z),
                              !.pos = det.cur.pos + Len(occ),
                              !.draws = [x \in DOMAIN occ |-> z[occ[x][1]][occ[x][2]]]]]
    /\ UNCHANGED <<sampler, perplexity_scores, pc, n, step, doc_ind, word_ind, out, visited,
                   eval_steps, len0, evals, before>>

\* for step in range(n): if step%25==0: self.perplexity()
DetSweepBegin ==
    /\ det.run \in {1, 2} /\ det.cur.stage = "sweeping"
    /\ ~det.cur.begun /\ det.cur.step < det.n
    /\ det' = [det EXCEPT
                 !.cur.begun = TRUE,
                 !.cur.scores =
                     IF det.cur.step % ReportEvery = 0
                     THEN AppendScore(det.cur.scores, det.text, det.K, det.cur.dtc,
                                      det.cur.ttc, DetAlpha, DetBeta)
                     ELSE @]
    /\ UNCHANGED <<sampler, perplexity_scores, pc, n, step, doc_ind, word_ind, out, visited,
                   eval_steps, len0, evals, before>>

\* One resample: remove, weights, draw with the generator's next variates, add back
DetResample ==
    /\ det.run \in {1, 2} /\ det.cur.stage = "sweeping"
    /\ det.cur.begun /\ det.cur.at < Len(Occurrences(det.text))
    /\ LET t == det.text
           kk == det.K
           o == Occurrences(t)[det.cur.at + 1]
           d == o[1]
           w == Word(t, o[1], o[2])
           old == det.cur.z[d][o[2]]
           dtc1 == Decrement(det.cur.dtc, d, old)
           ttc1 == Decrement(det.cur.ttc, w, old)
           wts == Weights(dtc1, ttc1, d, w, kk, Cardinality(TokensOf(t)), DetAlpha, DetBeta)
       IN \E us \in Supply(det.stream, det.cur.pos, kk - 1) :
             LET new_topic == Multinomial1(wts, [j \in 0 .. (kk - 2) |-> us[j + 1]], kk)
                 used == VariatesUsed(new_topic, kk)
                 dtc2 == Increment(dtc1, d, new_topic)
                 ttc2 == Increment(ttc1, w, new_topic)
             IN det' = [det EXCEPT
                   !.stream = Consume(det.stream, det.cur.pos, us, used),
                   !.cur.z = [@ EXCEPT ![d] = [@ EXCEPT ![o[2]] = new_topic]],
                   !.cur.dtc = dtc2,
                   !.cur.ttc = ttc2,
                   !.cur.pos = @ + used,
                   !.cur.at = @ + 1,
                   !.cur.draws = Append(@, new_topic),
                   !.cur.mats = Append(@, <<dtc2, ttc2>>)]
    /\ UNCHANGED <<sampler, perplexity_scores, pc, n, step, doc_ind, word_ind, out, visited,
                   eval_steps, len0, evals, before>>

\* the occurrences are exhausted: next step
DetSweepEnd ==
    /\ det.run \in {1, 2} /\ det.cur.stage = "sweeping"
    /\ det.cur.begun /\ det.cur.at >= Len(Occurrences(det.text))
    /\ det' = [det EXCEPT !.cur.begun = FALSE, !.cur.at = 0, !.cur.step = @ + 1]
    /\ UNCHANGED <<sampler, perplexity_scores, pc, n, step, doc_ind, word_ind, out, visited,
                   eval_steps, len0, evals, before>>

\* iterate returns; after the first run the generator is seeded again and
\* the second run starts
DetFinish ==
    /\ det.run \in {1, 2} /\ det.cur.stage = "sweeping"
    /\ ~det.cur.begun /\ det.cur.step >= det.n
    /\ det' = IF det.run = 1
              THEN [det EXCEPT !.run = 2, !.first = [det.cur EXCEPT !.stage = "done"],
                               !.cur = FreshRun]
              ELSE [det EXCEPT !.cur.stage = "done"]
    /\ UNCHANGED <<sampler, perplexity_scores, pc, n, step, doc_ind, word_ind, out, visited,
                   eval_steps, len0, evals, before>>

InitDet ==
    /\ text = << >> /\ K = 0
    /\ status = "new"
    /\ tokens = {}
    /\ V = 0
    /\ doc_topic = << >>
    /\ doc_topic_counts = << >>
    /\ term_topic_count = << >>
    /\ alpha = [num |-> 0, den |-> 1]
    /\ beta = [num |-> 0, den |-> 1]
    /\ perplexity_scores = << >>
    /\ pc = "idle"
    /\ n = 0
    /\ step = 0
    /\ doc_ind = 0
    /\ word_ind = 0
    /\ out = << >>
    /\ visited = << >>
    /\ eval_steps = << >>
    /\ len0 = 0
    /\ evals = 0
    /\ before = << >>
    /\ \E c \in DetConfigs :
          det = [run |-> 1, text |-> c[1], K |-> c[2], n |-> c[3], stream |-> << >>,
                 cur |-> FreshRun, first |-> FreshRun]

NextDet ==
    \/ DetConstruct
    \/ DetSweepBegin
    \/ DetResample
    \/ DetSweepEnd
    \/ DetFinish

SpecDet == InitDet /\ [][NextDet]_vars

----------------------------------------------------------------------------
(* Properties *)

\* The sampler exists and no resample is half done
BetweenResamples == status = "ready" /\ pc # "removed"

\* iterate is running
InCall == pc \in {"for_step", "for_doc", "for_word", "removed"}

\* The number of positions of document d assigned to topic k
AssignedInDoc(d, k) == Cardinality({ i \in Positions(text, d) : doc_topic[d][i] = k })

\* The number of occurrences of term w in the corpus assigned to topic k
AssignedToTerm(w, k) ==
    Cardinality({ o \in OccurrenceSet(text) :
                    Word(text, o[1], o[2]) = w /\ doc_topic[o[1]][o[2]] = k })

\* The sum of all entries of a count matrix
MatrixSum(m) == SumOver([r \in DOMAIN m |-> SumOver(m[r], DOMAIN m[r])], DOMAIN m)

\* C1: after construction and after every completed resample, every row of
\* doc_topic_counts sums to the number of word occurrences of its document.
C1_RowSum ==
    BetweenResamples =>
        \A d \in Docs(text) :
            SumOver(doc_topic_counts[d], DOMAIN doc_topic_counts[d]) = Len(text[d + 1])

\* C1 witness: in the second sweep, after the resample of an occurrence of a
\* document with two words, whose two words now have different topics.
C1_Witness ==
    /\ status = "ready" /\ pc = "for_word" /\ step = 1 /\ word_ind = 2
    /\ doc_topic[doc_ind][0] # doc_topic[doc_ind][1]

\* C2: after construction and between completed resamples, doc_topic_counts and
\* term_topic_count have the same total, the number of word occurrences of the corpus.
C2_CorpusTotal ==
    BetweenResamples =>
        /\ MatrixSum(doc_topic_counts) = TotalWords(text)
        /\ MatrixSum(term_topic_count) = TotalWords(text)

\* C2 witness: a corpus with a term repeated in one document, after a whole sweep.
C2_Witness ==
    /\ status = "ready" /\ pc = "for_step" /\ step = 1
    /\ text = CorpusB /\ TotalWords(text) = 3
    /\ term_topic_count["a"][1] = 2

\* C3: after construction and after every completed resample both matrices are
\* the exact tallies of the assignments: [d,k] counts the positions of d
\* assigned to k, [w,k] counts the occurrences of w in the corpus assigned to k.
C3_ExactTallies ==
    BetweenResamples =>
        /\ \A d \in Docs(text) :
              /\ DOMAIN doc_topic_counts[d] = Topics(K)
              /\ \A k \in Topics(K) : doc_topic_counts[d][k] = AssignedInDoc(d, k)
        /\ DOMAIN term_topic_count = tokens
        /\ \A w \in tokens :
              /\ DOMAIN term_topic_count[w] = Topics(K)
              /\ \A k \in Topics(K) : term_topic_count[w][k] = AssignedToTerm(w, k)

\* C3 witness: after a resample, a term that occurs twice in one document has
\* one occurrence in each of two topics.
C3_Witness ==
    /\ status = "ready" /\ pc = "for_word" /\ visited # << >>
    /\ text = CorpusB
    /\ term_topic_count["a"][0] = 1 /\ term_topic_count["a"][1] = 1

\* C4: no entry of either count matrix is ever negative, also between the
\* remove half and the add-back half of a resample.
C4_NonNegative ==
    status = "ready" =>
        /\ \A d \in DOMAIN doc_topic_counts : \A k \in DOMAIN doc_topic_counts[d] :
              doc_topic_counts[d][k] >= 0
        /\ \A w \in DOMAIN term_topic_count : \A k \in DOMAIN term_topic_count[w] :
              term_topic_count[w][k] >= 0

\* C4 witness: the remove half has brought an entry of each matrix down to 0.
C4_Witness ==
    /\ status = "ready" /\ pc = "removed" /\ step = 1
    /\ doc_topic_counts[doc_ind][doc_topic[doc_ind][word_ind]] = 0
    /\ term_topic_count[Word(text, doc_ind, word_ind)][doc_topic[doc_ind][word_ind]] = 0

\* s is the beginning of t
IsPrefix(s, t) == Len(s) <= Len(t) /\ s = SubSeq(t, 1, Len(s))

\* C5: a call with n sweeps (n >= 0) makes exactly n passes; in each pass the
\* occurrences are resampled one by one in document order and then position
\* order, the next one being the loop's current position, none skipped and
\* none resampled twice.
C5_SweepOrder ==
    (status = "ready" /\ InCall /\ n >= 0) =>
        /\ step <= n
        /\ IsPrefix(visited, Occurrences(text))
        /\ pc = "for_step" => (visited = IF step = 0 THEN << >> ELSE Occurrences(text))
        /\ pc = "for_doc" => visited = SubSeq(Occurrences(text), 1, Len(visited))
                             /\ (doc_ind >= Len(text) => visited = Occurrences(text))
        /\ pc \in {"for_word", "removed"} =>
              /\ doc_ind < Len(text)
              /\ (word_ind < Len(text[doc_ind + 1]) =>
                     /\ Len(visited) < Len(Occurrences(text))
                     /\ Occurrences(text)[Len(visited) + 1] = <<doc_ind, word_ind>>)
        /\ (pc = "for_step" /\ step >= n) => step = n

\* C5 witness: iterate(2) is about to return after its second full pass over a
\* corpus of several documents.
C5_Witness ==
    /\ status = "ready" /\ pc = "for_step" /\ n = 2 /\ step = 2
    /\ Len(text) > 1 /\ visited = Occurrences(text) /\ Len(visited) = 3

\* C6: in a call of iterate with n sweeps, perplexity is evaluated exactly in the
\* sweeps whose index is a multiple of 25, sweep 0 included, before any resample
\* of the sweep, so the call appends ceil(n/25) scores.
C6_Cadence ==
    (status = "ready" /\ InCall) =>
        LET begun == IF pc = "for_step" THEN step ELSE step + 1
            expected == (begun + ReportEvery - 1) \div ReportEvery
        IN /\ eval_steps = [i \in 1 .. expected |-> (i - 1) * ReportEvery]
           /\ Len(perplexity_scores) = len0 + expected
           /\ (pc = "for_step" /\ step >= n) =>
                 Len(perplexity_scores) = len0 + (n + ReportEvery - 1) \div ReportEvery

\* C6 witness: iterate(50), called on a non-empty trace, is about to return
\* and has evaluated in sweeps 0 and 25.
C6_Witness ==
    /\ status = "ready" /\ pc = "for_step" /\ n = 2 * ReportEvery /\ step = n
    /\ len0 = 1 /\ eval_steps = <<0, ReportEvery>> /\ Len(perplexity_scores) = 3

\* C7: an evaluation of perplexity leaves the assignments, both count matrices,
\* alpha and beta (and the corpus, K and the vocabulary) unchanged; all it does
\* to the sampler is to append one score to the trace.
C7_Observational ==
    [][evals' # evals =>
          /\ doc_topic' = doc_topic
          /\ doc_topic_counts' = doc_topic_counts
          /\ term_topic_count' = term_topic_count
          /\ alpha' = alpha /\ beta' = beta
          /\ text' = text /\ K' = K /\ tokens' = tokens /\ V' = V
          /\ Len(perplexity_scores') = Len(perplexity_scores) + 1
          /\ perplexity_scores' =
                Append(perplexity_scores, perplexity_scores'[Len(perplexity_scores')])]_vars

\* C7 witness: an evaluation made by iterate at sweep 0, after an earlier call
\* has resampled the corpus.
C7_Witness ==
    /\ status = "ready" /\ pc = "for_doc" /\ step = 0 /\ doc_ind = 0
    /\ evals = 2 /\ len0 = 1 /\ Len(perplexity_scores) = 2
    /\ perplexity_scores[1] # perplexity_scores[2]

\* C8: the perplexity trace is append-only: no step shortens it or changes a
\* recorded entry, an evaluation appends exactly one entry at its end, and no
\* other step (sweep, resample, top-word query, return) changes it.
C8_AppendOnly ==
    [][/\ IsPrefix(perplexity_scores, perplexity_scores')
       /\ Len(perplexity_scores') =
             Len(perplexity_scores) + (IF evals' # evals THEN 1 ELSE 0)]_vars

\* C8 witness: a top-word query on a sampler whose trace holds two scores.
C8_Witness ==
    /\ status = "ready" /\ pc = "idle" /\ out # << >>
    /\ evals = 2 /\ Len(perplexity_scores) = 2

C12_EmptyVocabulary ==
    TokensOf(text) = {} =>
        /\ status # "ready"
        /\ pc = "idle" /\ visited = << >>
        /\ evals = 0 /\ perplexity_scores = << >>

\* C12 witness: Gibbs(text, K) has raised for a valid K on a corpus whose only
\* document is empty
C12_Witness == status = "failed" /\ K >= 1 /\ Len(text) > 0 /\ TokensOf(text) = {}

\* C13: a call of iterate with a negative number of sweeps is rejected: it
\* never returns normally to its caller.
C13_NegativeSweepsRejected ==
    [][(status = "ready" /\ InCall /\ n < 0) => pc' # "idle"]_vars

\* What the last query printed is right for the counts at hand: for every topic
\* of [0, K), min(n, V) distinct terms of the vocabulary in non-increasing order
\* of the topic's count, no term left out having a larger count than one listed.
TopTermsReported ==
    /\ DOMAIN out = Topics(K)
    /\ \A k \in Topics(K) :
          LET ws == out[k].words
              m == out[k].n
          IN /\ m >= 0
             /\ Len(ws) = (IF m < V THEN m ELSE V)
             /\ \A i \in DOMAIN ws : ws[i] \in tokens
             /\ \A i, j \in DOMAIN ws : i # j => ws[i] # ws[j]
             /\ \A i, j \in DOMAIN ws :
                   i < j => term_topic_count[ws[i]][k] >= term_topic_count[ws[j]][k]
             /\ \A w \in tokens \ { ws[i] : i \in DOMAIN ws } :
                   \A i \in DOMAIN ws : term_topic_count[w][k] <= term_topic_count[ws[i]][k]

\* C14: a top-term query with n >= 0 reports, for every topic, min(n, V) distinct
\* terms in non-increasing order of the topic's count, none left out with a
\* larger count than a reported one (n > V gives V terms, no error), and it
\* changes neither the sampler nor the perplexity trace.
C14_TopTerms ==
    [][out' # << >> =>
          /\ TopTermsReported'
          /\ sampler' = sampler
          /\ perplexity_scores' = perplexity_scores]_vars

\* C14 witness: top_n_words(3) on a sampler with V = 2 has listed both terms for
\* topic 0, the first with a strictly larger count than the second.
C14_Witness ==
    /\ status = "ready" /\ pc = "idle" /\ out # << >> /\ V = 2
    /\ out[0].n = 3 /\ Len(out[0].words) = 2
    /\ term_topic_count[out[0].words[1]][0] > term_topic_count[out[0].words[2]][0]

\* The number of positions of document d, other than the occurrence o,
\* assigned to topic k
AssignedInDocExcept(d, k, o) ==
    Cardinality({ i \in Positions(text, d) : <<d, i>> # o /\ doc_topic[d][i] = k })

\* The number of occurrences of term w, other than the occurrence o, assigned
\* to topic k
AssignedToTermExcept(w, k, o) ==
    Cardinality({ p \in OccurrenceSet(text) \ {o} :
                    Word(text, p[1], p[2]) = w /\ doc_topic[p[1]][p[2]] = k })

\* C15: when the weights for the occurrence (doc_ind, word_ind) are computed,
\* both matrices are the tallies of the current assignments of all the other
\* occurrences (those resampled earlier in the sweep with their new topics);
\* row doc_ind of doc_topic_counts sums to the document's length less 1 and
\* each matrix sums to the corpus total less 1.
C15_Exclusion ==
    (status = "ready" /\ pc = "removed") =>
        LET o == <<doc_ind, word_ind>>
        IN /\ \A d \in Docs(text) : \A k \in Topics(K) :
                 doc_topic_counts[d][k] = AssignedInDocExcept(d, k, o)
           /\ \A w \in tokens : \A k \in Topics(K) :
                 term_topic_count[w][k] = AssignedToTermExcept(w, k, o)
           /\ RowSum(doc_topic_counts, doc_ind) = Len(text[doc_ind + 1]) - 1
           /\ MatrixSum(doc_topic_counts) = TotalWords(text) - 1
           /\ MatrixSum(term_topic_count) = TotalWords(text) - 1

\* C15 witness: the second word of a two-word document has been removed, after
\* the first word was resampled in the same sweep and holds another topic.
C15_Witness ==
    /\ status = "ready" /\ pc = "removed" /\ text = CorpusB
    /\ doc_ind = 0 /\ word_ind = 1 /\ visited = << <<0, 0>> >>
    /\ doc_topic[0][0] # doc_topic[0][1]
    /\ doc_topic_counts[0][doc_topic[0][0]] = 1
    /\ term_topic_count["a"][doc_topic[0][1]] = 0

\* C16: in every state of the sampler, also after the remove half of a
\* resample, every topic has the same total in both matrices: the sum over the
\* documents of doc_topic_counts[., j], which the code uses in the denominator
\* of word_given_topic, is the sum over the terms of term_topic_count[., j].
C16_TopicTotalsAgree ==
    status = "ready" =>
        \A j \in Topics(K) : ColSum(doc_topic_counts, j) = ColSum(term_topic_count, j)

\* C16 witness: in the second sweep over a corpus of two documents and two
\* terms, a word has been removed and the topics' totals are 2 and 0.
C16_Witness ==
    /\ status = "ready" /\ pc = "removed" /\ step = 1 /\ text = CorpusD /\ K = 2
    /\ doc_ind = 1
    /\ ColSum(doc_topic_counts, 0) = 2 /\ ColSum(term_topic_count, 1) = 0
    /\ doc_topic_counts[0][0] = 1 /\ term_topic_count["a"][0] = 2

\* The change of entry [r, k] of a matrix by a resample that moves an
\* occurrence of row row from topic k_old to topic k_new
FrameDelta(r, k, row, k_old, k_new) ==
    IF r = row
    THEN (IF k = k_new THEN 1 ELSE 0) - (IF k = k_old THEN 1 ELSE 0)
    ELSE 0

\* C17: after the resample of occurrence (d, i) with term w, old topic k_old
\* and drawn topic k_new, only z[d,i] and the entries [d,k_old], [d,k_new],
\* [w,k_old], [w,k_new] can differ from what they were before it: for
\* k_new # k_old the k_old entries are 1 lower and the k_new entries 1 higher,
\* for k_new = k_old no count differs; the other rows, the other assignments
\* and the perplexity trace are as before.
C17_ResampleFrame ==
    (status = "ready" /\ pc = "for_word" /\ before # << >>) =>
        LET pre == before[1]
            d == doc_ind
            i == word_ind - 1
            w == Word(text, d, i)
            k_old == pre.z[d][i]
            k_new == doc_topic[d][i]
        IN /\ DOMAIN doc_topic = DOMAIN pre.z
           /\ \A d2 \in Docs(text) :
                 /\ DOMAIN doc_topic[d2] = DOMAIN pre.z[d2]
                 /\ \A i2 \in Positions(text, d2) :
                       <<d2, i2>> # <<d, i>> => doc_topic[d2][i2] = pre.z[d2][i2]
           /\ DOMAIN doc_topic_counts = DOMAIN pre.dtc
           /\ \A d2 \in Docs(text) :
                 /\ DOMAIN doc_topic_counts[d2] = DOMAIN pre.dtc[d2]
                 /\ \A k \in Topics(K) :
                       doc_topic_counts[d2][k] =
                           pre.dtc[d2][k] + FrameDelta(d2, k, d, k_old, k_new)
           /\ DOMAIN term_topic_count = DOMAIN pre.ttc
           /\ \A w2 \in tokens :
                 /\ DOMAIN term_topic_count[w2] = DOMAIN pre.ttc[w2]
                 /\ \A k \in Topics(K) :
                       term_topic_count[w2][k] =
                           pre.ttc[w2][k] + FrameDelta(w2, k, w, k_old, k_new)
           /\ k_new = k_old =>
                 doc_topic_counts = pre.dtc /\ term_topic_count = pre.ttc
                 /\ doc_topic = pre.z
           /\ perplexity_scores = pre.scores

\* C17 witness: in a corpus of several documents and terms, the occurrence
\* (1, 0) has just moved from topic 0 to topic 1 while other occurrences of
\* its term and of its document stay in topic 0.
C17_Witness ==
    /\ status = "ready" /\ pc = "for_word" /\ before # << >>
    /\ text = CorpusD /\ K = 2 /\ doc_ind = 1 /\ word_ind = 1
    /\ before[1].z[1][0] = 0 /\ doc_topic[1][0] = 1
    /\ doc_topic[0][0] = 0 /\ doc_topic[1][1] = 0
    /\ Len(perplexity_scores) = 1

\* C18: whenever the weights of a resample are computed (K >= 1, V >= 1), the
\* denominators doc_topic_counts.sum()[j] + V*beta and
\* doc_topic_counts.sum(1)[doc_ind] + K*alpha are strictly positive and each of
\* the K weights is strictly positive, so their sum is not zero and a topic of
\* [0, K) is drawn.
C18_WellDefinedDraw ==
    (status = "ready" /\ pc = "removed") =>
        LET w == Word(text, doc_ind, word_ind)
            wts == Weights(doc_topic_counts, term_topic_count, doc_ind, w, K, V, alpha, beta)
        IN /\ K >= 1 /\ V >= 1
           /\ alpha.num > 0 /\ alpha.den > 0 /\ beta.num > 0 /\ beta.den > 0
           /\ DocDen(doc_topic_counts, doc_ind, K, alpha) > 0
           /\ \A j \in Topics(K) :
                 /\ CorpusDen(doc_topic_counts, j, V, beta) > 0
                 /\ WordNum(term_topic_count, w, j, beta) > 0
                 /\ TopicNum(doc_topic_counts, doc_ind, j, alpha) > 0
                 /\ wts[j] > 0
           /\ DOMAIN wts = Topics(K)
           /\ SumOver(wts, DOMAIN wts) > 0
           /\ Drawable(text, doc_topic_counts, term_topic_count, doc_ind, word_ind,
                       K, V, alpha, beta) # {}
           /\ Drawable(text, doc_topic_counts, term_topic_count, doc_ind, word_ind,
                       K, V, alpha, beta) \subseteq Topics(K)

\* C18 witness: the only word of a document has been removed, its row of
\* doc_topic_counts is all zero and a topic has no word left in the corpus: the
\* weights rest on alpha and beta alone.
C18_Witness ==
    /\ status = "ready" /\ pc = "removed" /\ text = CorpusD /\ K = 2 /\ doc_ind = 0
    /\ RowSum(doc_topic_counts, 0) = 0
    /\ \E j \in Topics(K) : ColSum(doc_topic_counts, j) = 0 /\ term_topic_count["a"][j] = 0

====
